---- MODULE Spec2Model ----
(***************************************************************************)
(* Model of src/src/lib.rs: the PairRate rate descriptor, its validating   *)
(* constructor, the two conversions calculate_output_amount and            *)
(* calculate_input_amount, and the private primitives adjust_decimals and  *)
(* safe_multiply_divide.                                                   *)
(*                                                                         *)
(* The code works on u128 and on num_bigint::BigUint.  TLC's integers are  *)
(* 32 bits wide, so an unsigned integer is modelled here at full width as  *)
(* the sequence of its base-LIMB digits, least significant first, without  *)
(* leading zero digits (zero is the empty sequence).  All program          *)
(* constants keep their real values: u128::MAX is 2^128 - 1.               *)
(***************************************************************************)
EXTENDS Integers, Sequences, FiniteSets, TLC

(***************************************************************************)
(* Unsigned integers of arbitrary size.                                    *)
(***************************************************************************)
LIMB == 10000

Zero == <<>>
One == <<1>>
Two == <<2>>
Ten == <<10>>

Min2(x, y) == IF x < y THEN x ELSE y
Max2(x, y) == IF x > y THEN x ELSE y

RECURSIVE Trim(_)
Trim(s) == IF s = <<>> THEN s
           ELSE IF s[Len(s)] = 0 THEN Trim(SubSeq(s, 1, Len(s) - 1)) ELSE s

\* a small natural number (below LIMB * LIMB) as an unsigned integer
FromNat(n) == IF n = 0 THEN <<>>
              ELSE IF n < LIMB THEN <<n>> ELSE <<n % LIMB, n \div LIMB>>

RECURSIVE CmpFrom(_, _, _)
CmpFrom(a, b, i) == IF i = 0 THEN 0
                    ELSE IF a[i] < b[i] THEN -1
                    ELSE IF a[i] > b[i] THEN 1
                    ELSE CmpFrom(a, b, i - 1)

\* -1, 0, 1 as a < b, a = b, a > b
Cmp(a, b) == IF Len(a) < Len(b) THEN -1
             ELSE IF Len(a) > Len(b) THEN 1
             ELSE CmpFrom(a, b, Len(a))

Lt(a, b) == Cmp(a, b) < 0
Le(a, b) == Cmp(a, b) <= 0
Gt(a, b) == Cmp(a, b) > 0

Digit(a, i) == IF i <= Len(a) THEN a[i] ELSE 0

RECURSIVE AddFrom(_, _, _, _)
AddFrom(a, b, i, c) ==
    IF i > Max2(Len(a), Len(b)) THEN (IF c = 0 THEN <<>> ELSE <<c>>)
    ELSE LET t == Digit(a, i) + Digit(b, i) + c
         IN <<t % LIMB>> \o AddFrom(a, b, i + 1, t \div LIMB)

Add(a, b) == AddFrom(a, b, 1, 0)

RECURSIVE SubFrom(_, _, _, _)
SubFrom(a, b, i, br) ==
    IF i > Len(a) THEN <<>>
    ELSE LET t == a[i] - Digit(b, i) - br
         IN IF t < 0 THEN <<t + LIMB>> \o SubFrom(a, b, i + 1, 1)
            ELSE <<t>> \o SubFrom(a, b, i + 1, 0)

\* a - b, for a >= b
Sub(a, b) == Trim(SubFrom(a, b, 1, 0))

RECURSIVE MulDigitFrom(_, _, _, _)
MulDigitFrom(a, k, i, c) ==
    IF i > Len(a) THEN (IF c = 0 THEN <<>> ELSE <<c>>)
    ELSE LET t == a[i] * k + c
         IN <<t % LIMB>> \o MulDigitFrom(a, k, i + 1, t \div LIMB)

\* a * k, for a digit k
MulDigit(a, k) == IF k = 0 THEN <<>> ELSE MulDigitFrom(a, k, 1, 0)

ShiftL(a, n) == IF a = <<>> THEN a ELSE [i \in 1..n |-> 0] \o a

RECURSIVE MulFrom(_, _, _)
MulFrom(a, b, j) ==
    IF j > Len(b) THEN <<>>
    ELSE Add(ShiftL(MulDigit(a, b[j]), j - 1), MulFrom(a, b, j + 1))

Mul(a, b) == MulFrom(a, b, 1)

\* the largest q in lo..hi with q * d <= r, given that lo * d <= r
RECURSIVE QDigit(_, _, _, _)
QDigit(r, d, lo, hi) ==
    IF lo >= hi THEN lo
    ELSE LET mid == (lo + hi + 1) \div 2
         IN IF Le(MulDigit(d, mid), r) THEN QDigit(r, d, mid, hi)
            ELSE QDigit(r, d, lo, mid - 1)

\* one step of long division: bring down a digit, find the quotient digit
DivStep(r, digit, d) ==
    LET r1 == Trim(<<digit>> \o r)
        n  == Len(d)
        rt == IF Len(r1) > n THEN r1[n + 1] * LIMB + r1[n]
              ELSE IF Len(r1) = n THEN r1[n] ELSE 0
        q  == IF Cmp(r1, d) < 0 THEN 0
              ELSE QDigit(r1, d, rt \div (d[n] + 1), Min2(LIMB - 1, rt \div d[n]))
    IN <<q, IF q = 0 THEN r1 ELSE Sub(r1, MulDigit(d, q))>>

RECURSIVE DivFrom(_, _, _, _, _)
DivFrom(a, d, i, r, acc) ==
    IF i = 0 THEN acc
    ELSE LET s == DivStep(r, a[i], d)
         IN IF s[1] >= 0 THEN DivFrom(a, d, i - 1, s[2], <<s[1]>> \o acc)
            ELSE <<>>

\* floor(a / d), for d # 0.  Both are first multiplied by the same digit f
\* that brings the leading digit of d to LIMB / 2 or more, which leaves the
\* quotient as it is and keeps the search of each quotient digit short.
Div(a, d) ==
    LET f  == LIMB \div (d[Len(d)] + 1)
        a1 == IF f > 1 THEN MulDigit(a, f) ELSE a
        d1 == IF f > 1 THEN MulDigit(d, f) ELSE d
    IN Trim(DivFrom(a1, d1, Len(a1), <<>>, <<>>))

(***************************************************************************)
(* u128 and the constants of the crate.                                    *)
(***************************************************************************)
\* u128::MAX = 2^128 - 1 = 340282366920938463463374607431768211455
U128_MAX == <<1455, 6821, 4317, 4607, 6337, 4634, 938, 6692, 2823, 340>>

MAX_DECIMALS == 38
MIN_RATE == One
MAX_RATE == Div(U128_MAX, Two)
MAX_DECIMAL_DIFF == 32

Some(v) == [some |-> TRUE, val |-> v]
None == [some |-> FALSE, val |-> Zero]

\* u128::checked_mul
checked_mul(a, b) ==
    LET p == Mul(a, b) IN IF Gt(p, U128_MAX) THEN None ELSE Some(p)

\* u128::checked_pow
RECURSIVE checked_pow(_, _)
checked_pow(base, exp) ==
    IF exp = 0 THEN Some(One)
    ELSE LET p == checked_pow(base, exp - 1)
         IN IF p.some THEN checked_mul(p.val, base) ELSE None

\* BigUint::to_u128
to_u128(n) == IF Le(n, U128_MAX) THEN Some(n) ELSE None

(***************************************************************************)
(* Result<T, String>.  An error carries the message of the code, without   *)
(* the numbers format! puts into it.  A panic is not a Result in Rust; it  *)
(* is kept apart by its own message.                                       *)
(***************************************************************************)
Ok(v) == [ok |-> TRUE, val |-> v, err |-> ""]
Err(m) == [ok |-> FALSE, val |-> Zero, err |-> m]
Panic == Err("panic: attempt to divide by zero")

MSG_INPUT_DECIMALS == "Input decimals exceeds maximum allowed"
MSG_OUTPUT_DECIMALS == "Output decimals exceeds maximum allowed"
MSG_RATE_MIN == "Rate components must be greater than 0"
MSG_RATE_MAX == "Rate components must be less than"
MSG_INPUT_ZERO == "Input amount must be greater than 0"
MSG_OUTPUT_ZERO == "Output amount must be greater than 0"
MSG_INPUT_TOO_LARGE == "Input amount too large, would cause overflow"
MSG_OUTPUT_TOO_LARGE == "Output amount too large, would cause overflow"
MSG_OUTPUT_IS_ZERO == "Calculated output amount is zero, increase input amount"
MSG_INPUT_IS_ZERO == "Calculated input amount is zero, increase output amount"
MSG_DECIMALS == "Decimals must be less than or equal to"
MSG_DECIMAL_DIFF == "Decimal difference exceeds maximum allowed"
MSG_DIVISOR_OVERFLOW == "Decimal divisor overflow"
MSG_MULTIPLIER_OVERFLOW == "Decimal multiplier overflow"
MSG_ADJUST_OVERFLOW == "Decimal adjustment caused overflow"
MSG_DIV_ZERO == "Division by zero"
MSG_TOO_LARGE == "Input values too large for safe calculation"
MSG_EXCEEDS_U128 == "Result exceeds u128"

(***************************************************************************)
(* impl PairRate                                                           *)
(***************************************************************************)
PairRate(token_pair, rate, decimals) ==
    [token_pair |-> token_pair, rate |-> rate, decimals |-> decimals]

validate_decimals(decimals) ==
    IF decimals[1] > MAX_DECIMALS THEN Err(MSG_INPUT_DECIMALS)
    ELSE IF decimals[2] > MAX_DECIMALS THEN Err(MSG_OUTPUT_DECIMALS)
    ELSE Ok(Zero)

\* faulty variant: the lower bound MIN_RATE is not checked
validate_rate_no_min(rate) ==
    IF Gt(rate[1], MAX_RATE) \/ Gt(rate[2], MAX_RATE) THEN Err(MSG_RATE_MAX)
    ELSE Ok(Zero)

validate_rate(rate) ==
    IF Lt(rate[1], MIN_RATE) \/ Lt(rate[2], MIN_RATE) THEN Err(MSG_RATE_MIN)
    ELSE IF Gt(rate[1], MAX_RATE) \/ Gt(rate[2], MAX_RATE) THEN Err(MSG_RATE_MAX)
    ELSE Ok(Zero)

\* faulty variant: a rate above MAX_RATE is accepted
new_no_max(token_pair, rate, decimals) ==
    LET vd == validate_decimals(decimals)
    IN IF ~vd.ok THEN vd
       ELSE IF Lt(rate[1], MIN_RATE) \/ Lt(rate[2], MIN_RATE) THEN Err(MSG_RATE_MIN)
       ELSE Ok(PairRate(token_pair, rate, decimals))

new(token_pair, rate, decimals) ==
    LET vd == validate_decimals(decimals)
        vr == validate_rate(rate)
    IN IF ~vd.ok THEN vd
       ELSE IF ~vr.ok THEN vr
       ELSE Ok(PairRate(token_pair, rate, decimals))

\* x mod 2^128
Wrap(x) == LET m == Add(U128_MAX, One) IN Sub(x, Mul(Div(x, m), m))

\* faulty variant: wrapping_mul in place of checked_mul
adjust_decimals_wrapping(amount, from_decimals, to_decimals) ==
    LET decimal_diff == IF from_decimals > to_decimals
                        THEN from_decimals - to_decimals
                        ELSE to_decimals - from_decimals
        factor == checked_pow(Ten, decimal_diff)
    IN IF from_decimals > MAX_DECIMALS \/ to_decimals > MAX_DECIMALS
       THEN Err(MSG_DECIMALS)
       ELSE IF decimal_diff > MAX_DECIMAL_DIFF THEN Err(MSG_DECIMAL_DIFF)
       ELSE IF from_decimals = to_decimals THEN Ok(amount)
       ELSE IF from_decimals > to_decimals
       THEN (IF ~factor.some THEN Err(MSG_DIVISOR_OVERFLOW)
             ELSE Ok(Div(amount, factor.val)))
       ELSE (IF ~factor.some THEN Err(MSG_MULTIPLIER_OVERFLOW)
             ELSE Ok(Wrap(Mul(amount, factor.val))))

\* faulty variant: the decimal difference is not bounded by MAX_DECIMAL_DIFF
adjust_decimals_no_diff_check(amount, from_decimals, to_decimals) ==
    LET decimal_diff == IF from_decimals > to_decimals
                        THEN from_decimals - to_decimals
                        ELSE to_decimals - from_decimals
        factor == checked_pow(Ten, decimal_diff)
    IN IF from_decimals > MAX_DECIMALS \/ to_decimals > MAX_DECIMALS
       THEN Err(MSG_DECIMALS)
       ELSE IF from_decimals = to_decimals THEN Ok(amount)
       ELSE IF from_decimals > to_decimals
       THEN (IF ~factor.some THEN Err(MSG_DIVISOR_OVERFLOW)
             ELSE Ok(Div(amount, factor.val)))
       ELSE (IF ~factor.some THEN Err(MSG_MULTIPLIER_OVERFLOW)
             ELSE LET product == checked_mul(amount, factor.val)
                  IN IF product.some THEN Ok(product.val)
                     ELSE Err(MSG_ADJUST_OVERFLOW))

adjust_decimals(amount, from_decimals, to_decimals) ==
    LET decimal_diff == IF from_decimals > to_decimals
                        THEN from_decimals - to_decimals
                        ELSE to_decimals - from_decimals
        factor == checked_pow(Ten, decimal_diff)
    IN IF from_decimals > MAX_DECIMALS \/ to_decimals > MAX_DECIMALS
       THEN Err(MSG_DECIMALS)
       ELSE IF decimal_diff > MAX_DECIMAL_DIFF THEN Err(MSG_DECIMAL_DIFF)
       ELSE IF from_decimals = to_decimals THEN Ok(amount)
       ELSE IF from_decimals > to_decimals
       THEN (IF ~factor.some THEN Err(MSG_DIVISOR_OVERFLOW)
             ELSE Ok(Div(amount, factor.val)))
       ELSE (IF ~factor.some THEN Err(MSG_MULTIPLIER_OVERFLOW)
             ELSE LET product == checked_mul(amount, factor.val)
                  IN IF product.some THEN Ok(product.val)
                     ELSE Err(MSG_ADJUST_OVERFLOW))

\* faulty variant: the quotient is rounded up
safe_multiply_divide_round_up(amount, multiplier, divisor) ==
    IF divisor = Zero THEN Err(MSG_DIV_ZERO)
    ELSE IF Gt(amount, MAX_RATE) \/ Gt(multiplier, MAX_RATE) THEN Err(MSG_TOO_LARGE)
    ELSE LET result == to_u128(Div(Add(Mul(amount, multiplier), Sub(divisor, One)),
                                   divisor))
         IN IF result.some THEN Ok(result.val) ELSE Err(MSG_EXCEEDS_U128)

safe_multiply_divide(amount, multiplier, divisor) ==
    IF divisor = Zero THEN Err(MSG_DIV_ZERO)
    ELSE IF Gt(amount, MAX_RATE) \/ Gt(multiplier, MAX_RATE) THEN Err(MSG_TOO_LARGE)
    ELSE LET result == to_u128(Div(Mul(amount, multiplier), divisor))
         IN IF result.some THEN Ok(result.val) ELSE Err(MSG_EXCEEDS_U128)

\* faulty variant: the descriptor is validated before the amount is looked at
calculate_output_amount_validate_first(price, input_amount) ==
    LET vr == validate_rate(price.rate)
        vd == validate_decimals(price.decimals)
        input_rate == price.rate[1]
        output_rate == price.rate[2]
        base_output == safe_multiply_divide(input_amount, output_rate, input_rate)
        adjusted_output ==
            adjust_decimals(base_output.val, price.decimals[1], price.decimals[2])
    IN IF ~vr.ok THEN vr
       ELSE IF ~vd.ok THEN vd
       ELSE IF input_amount = Zero THEN Err(MSG_INPUT_ZERO)
       ELSE IF output_rate = Zero THEN Panic
       ELSE IF Gt(input_amount, Div(U128_MAX, output_rate))
       THEN Err(MSG_INPUT_TOO_LARGE)
       ELSE IF ~base_output.ok THEN base_output
       ELSE IF ~adjusted_output.ok THEN adjusted_output
       ELSE IF adjusted_output.val = Zero THEN Err(MSG_OUTPUT_IS_ZERO)
       ELSE Ok(adjusted_output.val)

\* faulty variant: a zero result is returned
calculate_output_amount_zero_result(price, input_amount) ==
    LET vr == validate_rate(price.rate)
        vd == validate_decimals(price.decimals)
        input_rate == price.rate[1]
        output_rate == price.rate[2]
        base_output == safe_multiply_divide(input_amount, output_rate, input_rate)
        adjusted_output ==
            adjust_decimals(base_output.val, price.decimals[1], price.decimals[2])
    IN IF input_amount = Zero THEN Err(MSG_INPUT_ZERO)
       ELSE IF ~vr.ok THEN vr
       ELSE IF ~vd.ok THEN vd
       ELSE IF output_rate = Zero THEN Panic
       ELSE IF Gt(input_amount, Div(U128_MAX, output_rate))
       THEN Err(MSG_INPUT_TOO_LARGE)
       ELSE IF ~base_output.ok THEN base_output
       ELSE IF ~adjusted_output.ok THEN adjusted_output
       ELSE Ok(adjusted_output.val)

\* faulty variant: no precheck before the multiplication
calculate_output_amount_no_precheck(price, input_amount) ==
    LET vr == validate_rate(price.rate)
        vd == validate_decimals(price.decimals)
        input_rate == price.rate[1]
        output_rate == price.rate[2]
        base_output == safe_multiply_divide(input_amount, output_rate, input_rate)
        adjusted_output ==
            adjust_decimals(base_output.val, price.decimals[1], price.decimals[2])
    IN IF input_amount = Zero THEN Err(MSG_INPUT_ZERO)
       ELSE IF ~vr.ok THEN vr
       ELSE IF ~vd.ok THEN vd
       ELSE IF ~base_output.ok THEN base_output
       ELSE IF ~adjusted_output.ok THEN adjusted_output
       ELSE IF adjusted_output.val = Zero THEN Err(MSG_OUTPUT_IS_ZERO)
       ELSE Ok(adjusted_output.val)

calculate_output_amount(price, input_amount) ==
    LET vr == validate_rate(price.rate)
        vd == validate_decimals(price.decimals)
        input_rate == price.rate[1]
        output_rate == price.rate[2]
        base_output == safe_multiply_divide(input_amount, output_rate, input_rate)
        adjusted_output ==
            adjust_decimals(base_output.val, price.decimals[1], price.decimals[2])
    IN IF input_amount = Zero THEN Err(MSG_INPUT_ZERO)
       ELSE IF ~vr.ok THEN vr
       ELSE IF ~vd.ok THEN vd
       ELSE IF output_rate = Zero THEN Panic
       ELSE IF Gt(input_amount, Div(U128_MAX, output_rate))
       THEN Err(MSG_INPUT_TOO_LARGE)
       ELSE IF ~base_output.ok THEN base_output
       ELSE IF ~adjusted_output.ok THEN adjusted_output
       ELSE IF adjusted_output.val = Zero THEN Err(MSG_OUTPUT_IS_ZERO)
       ELSE Ok(adjusted_output.val)

\* faulty variant: the precheck divides by output_rate, as the other conversion
calculate_input_amount_wrong_precheck(price, output_amount) ==
    LET vr == validate_rate(price.rate)
        vd == validate_decimals(price.decimals)
        input_rate == price.rate[1]
        output_rate == price.rate[2]
        base_input == safe_multiply_divide(output_amount, input_rate, output_rate)
        adjusted_input ==
            adjust_decimals(base_input.val, price.decimals[2], price.decimals[1])
    IN IF output_amount = Zero THEN Err(MSG_OUTPUT_ZERO)
       ELSE IF ~vr.ok THEN vr
       ELSE IF ~vd.ok THEN vd
       ELSE IF output_rate = Zero THEN Panic
       ELSE IF Gt(output_amount, Div(U128_MAX, output_rate))
       THEN Err(MSG_OUTPUT_TOO_LARGE)
       ELSE IF ~base_input.ok THEN base_input
       ELSE IF ~adjusted_input.ok THEN adjusted_input
       ELSE IF adjusted_input.val = Zero THEN Err(MSG_INPUT_IS_ZERO)
       ELSE Ok(adjusted_input.val)

\* faulty variant: the decimals are passed in the order of the other conversion
calculate_input_amount_same_decimals_order(price, output_amount) ==
    LET vr == validate_rate(price.rate)
        vd == validate_decimals(price.decimals)
        input_rate == price.rate[1]
        output_rate == price.rate[2]
        base_input == safe_multiply_divide(output_amount, input_rate, output_rate)
        adjusted_input ==
            adjust_decimals(base_input.val, price.decimals[1], price.decimals[2])
    IN IF output_amount = Zero THEN Err(MSG_OUTPUT_ZERO)
       ELSE IF ~vr.ok THEN vr
       ELSE IF ~vd.ok THEN vd
       ELSE IF input_rate = Zero THEN Panic
       ELSE IF Gt(output_amount, Div(U128_MAX, input_rate))
       THEN Err(MSG_OUTPUT_TOO_LARGE)
       ELSE IF ~base_input.ok THEN base_input
       ELSE IF ~adjusted_input.ok THEN adjusted_input
       ELSE IF adjusted_input.val = Zero THEN Err(MSG_INPUT_IS_ZERO)
       ELSE Ok(adjusted_input.val)

calculate_input_amount(price, output_amount) ==
    LET vr == validate_rate(price.rate)
        vd == validate_decimals(price.decimals)
        input_rate == price.rate[1]
        output_rate == price.rate[2]
        base_input == safe_multiply_divide(output_amount, input_rate, output_rate)
        adjusted_input ==
            adjust_decimals(base_input.val, price.decimals[2], price.decimals[1])
    IN IF output_amount = Zero THEN Err(MSG_OUTPUT_ZERO)
       ELSE IF ~vr.ok THEN vr
       ELSE IF ~vd.ok THEN vd
       ELSE IF input_rate = Zero THEN Panic
       ELSE IF Gt(output_amount, Div(U128_MAX, input_rate))
       THEN Err(MSG_OUTPUT_TOO_LARGE)
       ELSE IF ~base_input.ok THEN base_input
       ELSE IF ~adjusted_input.ok THEN adjusted_input
       ELSE IF adjusted_input.val = Zero THEN Err(MSG_INPUT_IS_ZERO)
       ELSE Ok(adjusted_input.val)

(***************************************************************************)
(* The inputs the callers draw from.                                       *)
(***************************************************************************)
MaxSmall == 3

\* 10^e
Pow10(e) == ShiftL(FromNat(10 ^ (e % 4)), e \div 4)

Exponents == {0, MAX_DECIMALS - MAX_DECIMAL_DIFF, 24}

Edges == {MAX_RATE, Add(MAX_RATE, One), U128_MAX}

Rates == {FromNat(k) : k \in 0..MaxSmall} \cup {MAX_RATE, Add(MAX_RATE, One)}

Amounts == {Zero} \cup {Mul(FromNat(k), Pow10(e)) : k \in 1..MaxSmall, e \in Exponents}
           \cup Edges

DecimalValues == {0, MAX_DECIMALS - MAX_DECIMAL_DIFF, 24, MAX_DECIMALS, MAX_DECIMALS + 1}

TokenPair == <<"TOKEN_A", "TOKEN_B">>

\* descriptors built field by field, as the tests do, valid or not
Prices == {PairRate(TokenPair, <<ir, or>>, <<id, od>>) :
              ir \in Rates, or \in Rates, id \in DecimalValues, od \in DecimalValues}

(***************************************************************************)
(* The callers: each action is one call of a function of the crate.        *)
(***************************************************************************)
VARIABLES pc, fn, args, ret, back

vars == <<pc, fn, args, ret, back>>

NotCalled == Err("not called")

Init ==
    /\ pc = "idle"
    /\ fn = "none"
    /\ args = <<>>
    /\ ret = NotCalled
    /\ back = NotCalled

CallNew ==
    /\ pc = "idle"
    /\ \E ir \in Rates, or \in Rates, id \in DecimalValues, od \in DecimalValues :
          /\ args' = <<TokenPair, <<ir, or>>, <<id, od>>>>
          /\ ret' = new(TokenPair, <<ir, or>>, <<id, od>>)
    /\ fn' = "new"
    /\ pc' = "returned"
    /\ UNCHANGED back

CallOutput ==
    /\ pc = "idle"
    /\ \E price \in Prices, input_amount \in Amounts :
          /\ args' = <<price, input_amount>>
          /\ ret' = calculate_output_amount(price, input_amount)
    /\ fn' = "calculate_output_amount"
    /\ pc' = "returned"
    /\ UNCHANGED back

CallInput ==
    /\ pc = "idle"
    /\ \E price \in Prices, output_amount \in Amounts :
          /\ args' = <<price, output_amount>>
          /\ ret' = calculate_input_amount(price, output_amount)
    /\ fn' = "calculate_input_amount"
    /\ pc' = "returned"
    /\ UNCHANGED back

\* tests::test_price_consistency: the output converted back
CallBack ==
    /\ pc = "returned"
    /\ fn = "calculate_output_amount"
    /\ ret.ok
    /\ back' = calculate_input_amount(args[1], ret.val)
    /\ pc' = "reversed"
    /\ UNCHANGED <<fn, args, ret>>

CallMultiplyDivide ==
    /\ pc = "idle"
    /\ \E amount \in Amounts, multiplier \in Amounts, divisor \in Amounts :
          /\ args' = <<amount, multiplier, divisor>>
          /\ ret' = safe_multiply_divide(amount, multiplier, divisor)
    /\ fn' = "safe_multiply_divide"
    /\ pc' = "returned"
    /\ UNCHANGED back

CallAdjust ==
    /\ pc = "idle"
    /\ \E amount \in Amounts, from \in DecimalValues, to \in DecimalValues :
          /\ args' = <<amount, from, to>>
          /\ ret' = adjust_decimals(amount, from, to)
    /\ fn' = "adjust_decimals"
    /\ pc' = "returned"
    /\ UNCHANGED back

\* the two conversions
Next == CallOutput \/ CallInput

Spec == Init /\ [][Next]_vars

\* the constructor
NextNew == CallNew

SpecNew == Init /\ [][NextNew]_vars

\* a conversion and its reverse
NextRoundTrip == CallOutput \/ CallBack

SpecRoundTrip == Init /\ [][NextRoundTrip]_vars

\* the private primitives
NextPrimitives == CallMultiplyDivide \/ CallAdjust

SpecPrimitives == Init /\ [][NextPrimitives]_vars

(***************************************************************************)
(* Vocabulary of the properties.                                           *)
(***************************************************************************)
\* the error kinds of the specification's taxonomy, by message
ErrKind(m) ==
    CASE m \in {MSG_INPUT_ZERO, MSG_OUTPUT_ZERO} -> "AmountZero"
      [] m \in {MSG_RATE_MIN, MSG_RATE_MAX} -> "RateOutOfRange"
      [] m \in {MSG_INPUT_DECIMALS, MSG_OUTPUT_DECIMALS, MSG_DECIMALS} -> "DecimalsExceedMax"
      [] m = MSG_DECIMAL_DIFF -> "DecimalDifferenceExceedsMax"
      [] m = MSG_DIV_ZERO -> "DivisionByZero"
      [] m = MSG_TOO_LARGE -> "OperandTooLarge"
      [] m \in {MSG_INPUT_TOO_LARGE, MSG_OUTPUT_TOO_LARGE} -> "PrecheckOverflow"
      [] m = MSG_ADJUST_OVERFLOW -> "MultiplyOverflow"
      [] m \in {MSG_DIVISOR_OVERFLOW, MSG_MULTIPLIER_OVERFLOW} -> "DecimalFactorOverflow"
      [] m = MSG_EXCEEDS_U128 -> "ResultOverflowsRange"
      [] m \in {MSG_OUTPUT_IS_ZERO, MSG_INPUT_IS_ZERO} -> "ResultUnderflowedToZero"
      [] OTHER -> "Panic"

Failed(r, kind) == ~r.ok /\ ErrKind(r.err) = kind

Conversions == {"calculate_output_amount", "calculate_input_amount"}

Returned(f) == pc # "idle" /\ fn = f
Converted == pc # "idle" /\ fn \in Conversions

\* the arguments of a conversion, and what each direction takes from them
ThePrice == args[1]
TheAmount == args[2]
Multiplier == IF fn = "calculate_output_amount" THEN ThePrice.rate[2] ELSE ThePrice.rate[1]
Divisor == IF fn = "calculate_output_amount" THEN ThePrice.rate[1] ELSE ThePrice.rate[2]
FromDecimals ==
    IF fn = "calculate_output_amount" THEN ThePrice.decimals[1] ELSE ThePrice.decimals[2]
ToDecimals ==
    IF fn = "calculate_output_amount" THEN ThePrice.decimals[2] ELSE ThePrice.decimals[1]

ValidPrice(price) == validate_rate(price.rate).ok /\ validate_decimals(price.decimals).ok

\* q = floor(n / d), stated by multiplication
IsFloor(q, n, d) == Le(Mul(q, d), n) /\ Gt(Mul(Add(q, One), d), n)

\* d divides n
Divides(d, n) == Mul(Div(n, d), d) = n

\* the exact product, and the exact quotient, of the conversion's first step
Product == Mul(TheAmount, Multiplier)
Base == Div(Product, Divisor)

\* the conversion gets as far as adjust_decimals
ReachesAdjuster ==
    /\ TheAmount # Zero
    /\ ValidPrice(ThePrice)
    /\ Le(TheAmount, Div(U128_MAX, Multiplier))
    /\ Le(TheAmount, MAX_RATE)

\* C1: a zero amount fails with the zero-amount message of the conversion,
\* whatever the descriptor, valid or not.
C1_ZeroGuard ==
    (Converted /\ TheAmount = Zero) =>
        ret = Err(IF fn = "calculate_output_amount" THEN MSG_INPUT_ZERO ELSE MSG_OUTPUT_ZERO)

C1_Witness ==
    /\ Returned("calculate_output_amount")
    /\ TheAmount = Zero
    /\ ~validate_rate(ThePrice.rate).ok
    /\ ~validate_decimals(ThePrice.decimals).ok
    /\ Failed(ret, "AmountZero")

\* the value calculate_output_amount returns is the exact one
OutputIsExact ==
    (Returned("calculate_output_amount") /\ ret.ok) =>
        /\ IsFloor(Base, Product, Divisor)
        /\ FromDecimals > ToDecimals =>
              IsFloor(ret.val, Base, Pow10(FromDecimals - ToDecimals))
        /\ FromDecimals = ToDecimals => ret.val = Base
        /\ FromDecimals < ToDecimals =>
              ret.val = Mul(Base, Pow10(ToDecimals - FromDecimals))

\* the scaled-up value of a conversion that got to adjust_decimals does not fit
ScaleUpOverflows ==
    /\ Returned("calculate_output_amount")
    /\ ReachesAdjuster
    /\ FromDecimals < ToDecimals
    /\ Gt(Mul(Base, Pow10(ToDecimals - FromDecimals)), U128_MAX)

\* C2 as stated: an Ok value of calculate_output_amount is the exact one, and
\* a scaled-up value that does not fit fails with MultiplyOverflow.
C2_Original ==
    /\ OutputIsExact
    /\ ScaleUpOverflows => Failed(ret, "MultiplyOverflow")

\* C2, amended: an Ok value of calculate_output_amount is the exact one; a
\* scaled-up value that does not fit fails with MultiplyOverflow when the
\* decimals differ by at most MAX_DECIMAL_DIFF, and with
\* DecimalDifferenceExceedsMax when they differ by more.
C2_Amended ==
    /\ OutputIsExact
    /\ ScaleUpOverflows =>
          IF ToDecimals - FromDecimals <= MAX_DECIMAL_DIFF
          THEN ret = Err(MSG_ADJUST_OVERFLOW)
          ELSE ret = Err(MSG_DECIMAL_DIFF)

C2_Witness ==
    /\ ScaleUpOverflows
    /\ ToDecimals - FromDecimals <= MAX_DECIMAL_DIFF
    /\ Failed(ret, "MultiplyOverflow")

\* the descriptor with rate and decimals swapped
Swapped(price) ==
    PairRate(price.token_pair, <<price.rate[2], price.rate[1]>>,
             <<price.decimals[2], price.decimals[1]>>)

\* C3: calculate_input_amount(d, x) has the outcome of
\* calculate_output_amount(d', x), d' being d with rate and decimals swapped:
\* the same value, or an error of the same kind.
C3_Mirror ==
    Returned("calculate_input_amount") =>
        LET mirror == calculate_output_amount(Swapped(ThePrice), TheAmount)
        IN /\ ret.ok = mirror.ok
           /\ ret.val = mirror.val
           /\ ErrKind(ret.err) = ErrKind(mirror.err)

C3_Witness ==
    /\ Returned("calculate_input_amount")
    /\ ret.ok
    /\ ThePrice.rate[1] # ThePrice.rate[2]
    /\ ThePrice.decimals[1] # ThePrice.decimals[2]

\* the first step of the reverse conversion, and its operands
BackProduct == Mul(ret.val, ThePrice.rate[1])
BackBase == Div(BackProduct, ThePrice.rate[2])

\* no decimal adjustment of the round trip discards a remainder
NoAdjustmentLoss ==
    /\ ThePrice.decimals[1] > ThePrice.decimals[2] =>
          Divides(Pow10(ThePrice.decimals[1] - ThePrice.decimals[2]), Base)
    /\ (ThePrice.decimals[2] > ThePrice.decimals[1]
          /\ safe_multiply_divide(ret.val, ThePrice.rate[1], ThePrice.rate[2]).ok) =>
          Divides(Pow10(ThePrice.decimals[2] - ThePrice.decimals[1]), BackBase)

\* no multiply-divide of the round trip discards a remainder
NoDivisionLoss ==
    /\ Divides(ThePrice.rate[1], Product)
    /\ Divides(ThePrice.rate[2], BackProduct)

\* the output passes the reverse conversion's precheck and operand bound
BackAccepted ==
    /\ Le(ret.val, Div(U128_MAX, ThePrice.rate[1]))
    /\ Le(ret.val, MAX_RATE)

\* C4 as stated: an output whose decimal adjustments lose nothing converts
\* back to the original amount.
C4_Original ==
    (pc = "reversed" /\ NoAdjustmentLoss) => back = Ok(TheAmount)

\* C4, amended: an output converts back to the original amount when no step
\* of the round trip, multiply-divide or decimal adjustment, discards a
\* remainder and the output passes the reverse precheck and operand bound.
C4_Amended ==
    (pc = "reversed" /\ NoAdjustmentLoss /\ NoDivisionLoss /\ BackAccepted) =>
        back = Ok(TheAmount)

C4_Witness ==
    /\ pc = "reversed"
    /\ NoAdjustmentLoss /\ NoDivisionLoss /\ BackAccepted
    /\ ThePrice.rate[1] # ThePrice.rate[2]
    /\ ~(One \in {ThePrice.rate[1], ThePrice.rate[2]})
    /\ ThePrice.decimals[1] > ThePrice.decimals[2]
    /\ back = Ok(TheAmount)

\* C5: a conversion never returns Ok(0); when both steps succeed and give 0
\* it fails with ResultUnderflowedToZero.
C5_NeverZero ==
    Converted =>
        /\ ret.ok => ret.val # Zero
        /\ (/\ ReachesAdjuster
            /\ adjust_decimals(Base, FromDecimals, ToDecimals) = Ok(Zero)) =>
              Failed(ret, "ResultUnderflowedToZero")

C5_Witness ==
    /\ Converted
    /\ ReachesAdjuster
    /\ Base # Zero
    /\ adjust_decimals(Base, FromDecimals, ToDecimals) = Ok(Zero)
    /\ Failed(ret, "ResultUnderflowedToZero")

\* the rates C6 is about: a zero component, or (MAX_RATE + 1, 1)
BadRate(rate) ==
    \/ rate[1] = Zero
    \/ rate[2] = Zero
    \/ rate = <<Add(MAX_RATE, One), One>>

\* C6 as stated: new fails with RateOutOfRange on such a rate, whatever the
\* decimals.
C6_Original ==
    (Returned("new") /\ BadRate(args[2])) => Failed(ret, "RateOutOfRange")

\* C6, amended: new returns no descriptor on such a rate; it fails with
\* RateOutOfRange when both decimals are at most MAX_DECIMALS and with
\* DecimalsExceedMax otherwise.
C6_Amended ==
    (Returned("new") /\ BadRate(args[2])) =>
        IF args[3][1] <= MAX_DECIMALS /\ args[3][2] <= MAX_DECIMALS
        THEN Failed(ret, "RateOutOfRange")
        ELSE Failed(ret, "DecimalsExceedMax")

C6_Witness ==
    /\ Returned("new")
    /\ args[2] = <<Add(MAX_RATE, One), One>>
    /\ args[3][1] <= MAX_DECIMALS /\ args[3][2] <= MAX_DECIMALS
    /\ Failed(ret, "RateOutOfRange")

DecimalGap ==
    IF FromDecimals > ToDecimals THEN FromDecimals - ToDecimals
    ELSE ToDecimals - FromDecimals

\* C7: with a valid rate and valid decimals more than MAX_DECIMAL_DIFF apart,
\* a conversion that reaches adjust_decimals fails with
\* DecimalDifferenceExceedsMax, scaling up or down; no Ok value was scaled by
\* more than 10^MAX_DECIMAL_DIFF.
C7_DecimalGap ==
    Converted =>
        /\ (ReachesAdjuster /\ DecimalGap > MAX_DECIMAL_DIFF) =>
              Failed(ret, "DecimalDifferenceExceedsMax")
        /\ ret.ok => DecimalGap <= MAX_DECIMAL_DIFF

C7_Witness ==
    /\ Returned("calculate_output_amount")
    /\ ReachesAdjuster
    /\ ThePrice.decimals = <<0, MAX_DECIMALS>>
    /\ Failed(ret, "DecimalDifferenceExceedsMax")

\* C8: safe_multiply_divide fails with DivisionByZero on a zero divisor, else
\* with OperandTooLarge on an amount or multiplier above MAX_RATE, else
\* returns the floor of the exact quotient when it fits u128 and fails with
\* ResultOverflowsRange when it does not.
C8_MultiplyDivide ==
    Returned("safe_multiply_divide") =>
        LET amount == args[1]
            multiplier == args[2]
            divisor == args[3]
            product == Mul(amount, multiplier)
        IN IF divisor = Zero THEN Failed(ret, "DivisionByZero")
           ELSE IF Gt(amount, MAX_RATE) \/ Gt(multiplier, MAX_RATE)
           THEN Failed(ret, "OperandTooLarge")
           ELSE IF Gt(Mul(Add(U128_MAX, One), divisor), product)
           THEN ret.ok /\ IsFloor(ret.val, product, divisor)
           ELSE Failed(ret, "ResultOverflowsRange")

C8_Witness ==
    /\ Returned("safe_multiply_divide")
    /\ ret.ok
    /\ Gt(Mul(args[1], args[2]), U128_MAX)
    /\ ~Divides(args[3], Mul(args[1], args[2]))

\* the precheck of calculate_output_amount rejects the amount
PrecheckRejects ==
    /\ Returned("calculate_output_amount")
    /\ TheAmount # Zero
    /\ ValidPrice(ThePrice)
    /\ Gt(TheAmount, Div(U128_MAX, ThePrice.rate[2]))

\* C9: an amount the precheck rejects fails with PrecheckOverflow, no result
\* is returned; the witness is an amount of at most MAX_RATE it rejects whose
\* exact result is not zero and fits u128.
C9_Precheck ==
    PrecheckRejects => ret = Err(MSG_INPUT_TOO_LARGE)

C9_Witness ==
    /\ PrecheckRejects
    /\ Le(TheAmount, MAX_RATE)
    /\ Le(Base, U128_MAX)
    /\ adjust_decimals(Base, FromDecimals, ToDecimals).ok
    /\ adjust_decimals(Base, FromDecimals, ToDecimals).val # Zero
    /\ Failed(ret, "PrecheckOverflow")

PublicErrors ==
    {"AmountZero", "RateOutOfRange", "DecimalsExceedMax", "PrecheckOverflow",
     "OperandTooLarge", "DecimalDifferenceExceedsMax", "MultiplyOverflow",
     "ResultUnderflowedToZero"}

\* C10: a conversion returns a value or one of the eight public errors: it
\* never fails with DivisionByZero, ResultOverflowsRange or
\* DecimalFactorOverflow and never panics; past the precheck the product fits
\* u128.
C10_PublicErrors ==
    Converted =>
        /\ ret.ok \/ ErrKind(ret.err) \in PublicErrors
        /\ ReachesAdjuster => Le(Product, U128_MAX)

C10_Witness ==
    /\ Converted
    /\ ret.ok
    /\ DecimalGap = MAX_DECIMAL_DIFF
    /\ ThePrice.rate[1] # ThePrice.rate[2]
====
